---- MODULE Spec2Model ----
(***************************************************************************)
(* The eBay listing-extraction endpoint of fit-check.                      *)
(*                                                                         *)
(* Two generations of the endpoint are modelled side by side:              *)
(*   impl = "single"  src/api/fetch.js            (one fetch, inline       *)
(*                                                 summary)                *)
(*   impl = "twopass" src/STATUS.md lines 151-469 (adds the iframe         *)
(*                                                 description fetch)      *)
(* Both share the request validation and most of parseEbayListing.         *)
(*                                                                         *)
(* Text is modelled with TLA+ strings.  A regular expression applied to    *)
(* the page is modelled by its capture: the page (a Doc) records, for      *)
(* every pattern the code tries, the text its first capture group holds,   *)
(* and "" when the pattern does not match (every capture group the code    *)
(* reads is either +-quantified or tested for emptiness before use).       *)
(* Markup that is cleaned (description fragments, the iframe body) is a    *)
(* sequence of tokens: a tag, an entity, a whitespace character or a run   *)
(* of plain characters.                                                    *)
(***************************************************************************)
EXTENDS Integers, Sequences, FiniteSets, TLC

VARIABLES
  impl,      \* which generation of the handler serves the request
  pc,        \* position of the async handler: start / primary / secondary / done
  req,       \* the request: [method, url]
  apiKey,    \* process.env.SCRAPINGBEE_API_KEY ("" when absent)
  fetches,   \* the network fetches issued so far, in order
  res,       \* the response sent (kind = "none" before it is sent)
  html,      \* the primary document, once received
  listing,   \* the record built by parseEbayListing (and the second pass)
  first,     \* the record as parseEbayListing returned it (history variable)
  sub,       \* how the iframe fetch ended: none / threw / notok / ok
  prim,      \* how the primary fetch ended: [outcome, status, text]
  subHtml    \* the iframe document, once received

vars ==
  <<impl, pc, req, apiKey, fetches, res, html, listing, first, sub, prim,
    subHtml>>

-----------------------------------------------------------------------------
(* Strings *)

CharAt(s, i) == SubSeq(s, i, i)

Min(a, b) == IF a < b THEN a ELSE b

\* s repeated n times, by halving (n may be in the thousands)
RECURSIVE Rep(_, _)
Rep(s, n) ==
  IF n = 0 THEN ""
  ELSE LET h == Rep(s, n \div 2)
       IN  IF n % 2 = 0 THEN h \o h ELSE h \o h \o s

\* String.prototype.slice(0, n)
Slice0(s, n) == SubSeq(s, 1, Min(n, Len(s)))

\* String.prototype.endsWith
EndsWith(s, d) ==
  Len(s) >= Len(d) /\ SubSeq(s, Len(s) - Len(d) + 1, Len(s)) = d

\* String.prototype.startsWith (used for anchored ^ patterns)
StartsWith(s, d) == Len(s) >= Len(d) /\ SubSeq(s, 1, Len(d)) = d

IsSpace(c) == c \in {" ", "\n", "\t"}

IsDigit(c) == c \in {"0", "1", "2", "3", "4", "5", "6", "7", "8", "9"}

RECURSIVE TrimStart(_)
TrimStart(s) ==
  IF Len(s) > 0 /\ IsSpace(CharAt(s, 1)) THEN TrimStart(Tail(s)) ELSE s

RECURSIVE TrimEnd(_)
TrimEnd(s) ==
  IF Len(s) > 0 /\ IsSpace(CharAt(s, Len(s)))
  THEN TrimEnd(SubSeq(s, 1, Len(s) - 1))
  ELSE s

\* String.prototype.trim
Trim(s) == TrimEnd(TrimStart(s))

Upper == "ABCDEFGHIJKLMNOPQRSTUVWXYZ"
Lower == "abcdefghijklmnopqrstuvwxyz"

\* one character, lower-cased (the /i flag of the patterns)
LowerChar(c) ==
  IF \E k \in 1..Len(Upper) : CharAt(Upper, k) = c
  THEN CharAt(Lower, CHOOSE k \in 1..Len(Upper) : CharAt(Upper, k) = c)
  ELSE c

RECURSIVE ToLower(_)
ToLower(s) == IF s = "" THEN "" ELSE LowerChar(CharAt(s, 1)) \o ToLower(Tail(s))

\* /^(w1|w2|...)/i : s starts with one of the words, ignoring case
StartsWithAnyCI(s, words) ==
  \E w \in words : StartsWith(ToLower(SubSeq(s, 1, Min(Len(s), Len(w)))), ToLower(w))

\* .replace(/,/g, '')
RECURSIVE StripCommas(_)
StripCommas(s) ==
  IF s = "" THEN ""
  ELSE IF CharAt(s, 1) = "," THEN StripCommas(Tail(s))
  ELSE CharAt(s, 1) \o StripCommas(Tail(s))

\* .replace(/:$/, '')
StripTrailingColon(s) ==
  IF EndsWith(s, ":") THEN SubSeq(s, 1, Len(s) - 1) ELSE s

\* .replace(/ \| eBay$/, '')
StripSiteSuffix(s) ==
  IF EndsWith(s, " | eBay") THEN SubSeq(s, 1, Len(s) - 7) ELSE s

-----------------------------------------------------------------------------
(* Program constants *)

PriceCeiling == 50000
KeyLenLimit == 25
ValueLenLimit == 100
MaxDescription == 3000
SummaryDescMin == 20
InlineDescMinSingle == 20
InlineDescMinTwoPass == 50
SecondPassBelow == 50

allowedDomains == <<"ebay.com", "www.ebay.com", "ebay.co.uk", "www.ebay.co.uk">>

commonSpecs ==
  <<"Size", "Brand", "Color", "Material", "Style", "Type", "Pattern",
    "Sleeve Length", "Fit", "Department">>

KeyChrome == {"See", "View", "Read", "Show", "More", "Less"}
ValueChrome == {"See", "View", "Read", "Show"}

FallbackSummary ==
  "Could not parse listing details. Please paste the listing content manually."

-----------------------------------------------------------------------------
(* Request validation *)

\* index of the first "/" of s at or after i, Len(s)+1 when there is none
RECURSIVE SlashFrom(_, _)
SlashFrom(s, i) ==
  IF i > Len(s) \/ CharAt(s, i) = "/" THEN i ELSE SlashFrom(s, i + 1)

SchemeOf(url) ==
  IF StartsWith(url, "https://") THEN "https://"
  ELSE IF StartsWith(url, "http://") THEN "http://"
  ELSE ""

\* new URL(url) throws unless the text has a scheme and a host
UrlParses(url) ==
  /\ SchemeOf(url) # ""
  /\ SlashFrom(url, Len(SchemeOf(url)) + 1) > Len(SchemeOf(url)) + 1

\* new URL(url).hostname
Hostname(url) ==
  ToLower(SubSeq(url, Len(SchemeOf(url)) + 1,
                 SlashFrom(url, Len(SchemeOf(url)) + 1) - 1))

\* allowedDomains.some(d => parsedUrl.hostname.endsWith(d))
HostAllowed(host) ==
  \E i \in 1..Len(allowedDomains) : EndsWith(host, allowedDomains[i])

-----------------------------------------------------------------------------
(* parseFloat on the characters the price patterns can capture *)

RECURSIVE DigitsEnd(_, _)
\* index just past the run of digits of s that starts at i
DigitsEnd(s, i) ==
  IF i <= Len(s) /\ IsDigit(CharAt(s, i)) THEN DigitsEnd(s, i + 1) ELSE i

DigitVal(c) == CHOOSE d \in 0..9 : CharAt("0123456789", d + 1) = c

RECURSIVE NatOf(_)
NatOf(ds) ==
  IF ds = "" THEN 0
  ELSE 10 * NatOf(SubSeq(ds, 1, Len(ds) - 1)) + DigitVal(CharAt(ds, Len(ds)))

RECURSIVE AllZero(_)
AllZero(ds) == ds = "" \/ (CharAt(ds, 1) = "0" /\ AllZero(Tail(ds)))

\* parseFloat(s): the longest prefix digits[.digits]; NaN when it has no digit.
\* The value is kept as its integer part and whether the fraction is non-zero,
\* which is all that the comparisons with 0 and 50000 read.
ParseFloat(s) ==
  LET e1   == DigitsEnd(s, 1)
      int  == SubSeq(s, 1, e1 - 1)
      dot  == e1 <= Len(s) /\ CharAt(s, e1) = "."
      e2   == IF dot THEN DigitsEnd(s, e1 + 1) ELSE e1
      frac == IF dot THEN SubSeq(s, e1 + 1, e2 - 1) ELSE ""
  IN  [nan  |-> int = "" /\ frac = "",
       int  |-> NatOf(int),
       frac |-> ~AllZero(frac),
       used |-> IF dot /\ (int # "" \/ frac # "") THEN e2 - 1 ELSE e1 - 1]

\* faulty variant: no upper bound (the price test of the earlier parser generations)
PriceSaneNoCeiling(v) == ~v.nan /\ (v.int > 0 \/ v.frac)

\* priceVal > 0 && priceVal < 50000
PriceSane(v) ==
  /\ ~v.nan
  /\ (v.int > 0 \/ v.frac)
  /\ v.int < PriceCeiling

-----------------------------------------------------------------------------
(* parseEbayListing: the structured-metadata (JSON-LD) pass *)

\* One <script type="application/ld+json"> block.  parses = JSON.parse
\* succeeds and yields an object; a field is "" when it is absent or falsy.
Block(parses, type, name, offerPrice, brandName, description) ==
  [parses |-> parses, type |-> type, name |-> name, offerPrice |-> offerPrice,
   brandName |-> brandName, description |-> description]

\* if (jsonLd['@type'] === 'Product' || jsonLd.name)
Qualifies(b) == b.parses /\ (b.type = "Product" \/ b.name # "")

\* faulty variant: a field already set by an earlier block is kept
LdStepFirstWins(acc, b) ==
  IF ~Qualifies(b) THEN acc
  ELSE [title       |-> IF acc.title = "" THEN b.name ELSE acc.title,
        price       |-> IF acc.price = "" THEN b.offerPrice ELSE acc.price,
        brand       |-> IF acc.brand = "" THEN b.brandName ELSE acc.brand,
        description |-> IF acc.description = "" THEN b.description
                        ELSE acc.description]

\* the body of the for loop, for one block
LdStep(acc, b) ==
  IF ~Qualifies(b) THEN acc
  ELSE [title       |-> IF b.name # "" THEN b.name ELSE acc.title,
        price       |-> IF b.offerPrice # "" THEN b.offerPrice ELSE acc.price,
        brand       |-> IF b.brandName # "" THEN b.brandName ELSE acc.brand,
        description |-> IF b.description # "" THEN b.description
                        ELSE acc.description]

LdEmpty == [title |-> "", price |-> "", brand |-> "", description |-> ""]

RECURSIVE LdFrom(_, _, _)
LdFrom(blocks, i, acc) ==
  IF i > Len(blocks) THEN acc ELSE LdFrom(blocks, i + 1, LdStep(acc, blocks[i]))

\* the values the JSON-LD loop leaves in title, price, specifics.Brand, description
LdPass(blocks) == LdFrom(blocks, 1, LdEmpty)

-----------------------------------------------------------------------------
(* parseEbayListing: title, price, condition *)

\* og:title, then <title>; each: .replace(/ \| eBay$/, '').trim()
ExtractTitle(doc, title) ==
  LET t1 == IF title = "" /\ doc.ogTitle # ""
            THEN Trim(StripSiteSuffix(doc.ogTitle)) ELSE title
  IN  IF t1 = "" /\ doc.pageTitle # ""
      THEN Trim(StripSiteSuffix(doc.pageTitle)) ELSE t1

\* pricePatterns.length: fetch.js tries six patterns, the two-pass handler five
PricePatternCount(im) == IF im = "single" THEN 6 ELSE 5

\* the test inside the price loop for pattern i
PriceAccepted(doc, i) ==
  doc.priceCand[i] # "" /\ PriceSane(ParseFloat(StripCommas(doc.priceCand[i])))

RECURSIVE PriceFrom(_, _, _)
\* for (const pattern of pricePatterns) { ... break; }
PriceFrom(doc, i, n) ==
  IF i > n THEN ""
  ELSE IF PriceAccepted(doc, i) THEN StripCommas(doc.priceCand[i])
  ELSE PriceFrom(doc, i + 1, n)

ExtractPrice(im, doc, price) ==
  IF price # "" THEN price ELSE PriceFrom(doc, 1, PricePatternCount(im))

RECURSIVE ConditionFrom(_, _)
\* first pattern whose capture is non-empty once trimmed
ConditionFrom(doc, i) ==
  IF i > Len(doc.condCand) THEN ""
  ELSE IF doc.condCand[i] # "" /\ Trim(doc.condCand[i]) # ""
       THEN Trim(doc.condCand[i])
  ELSE ConditionFrom(doc, i + 1)

ExtractCondition(doc) == ConditionFrom(doc, 1)

-----------------------------------------------------------------------------
(* parseEbayListing: item specifics *)

\* The specifics object: a sequence of <<key, value>> with distinct keys, in
\* insertion order (Object.entries order; no key that reaches it is an
\* integer-like key).
HasKey(m, k) == \E i \in 1..Len(m) : m[i][1] = k

Get(m, k) == IF HasKey(m, k) THEN m[CHOOSE i \in 1..Len(m) : m[i][1] = k][2] ELSE ""

\* specifics[k] = v
Put(m, k, v) ==
  IF HasKey(m, k)
  THEN [i \in 1..Len(m) |-> IF m[i][1] = k THEN <<k, v>> ELSE m[i]]
  ELSE Append(m, <<k, v>>)

PairKey(pair) == Trim(StripTrailingColon(pair[1]))
PairValue(pair) == Trim(pair[2])

\* the filter of the generic label/value scan
PairAccepted(pair) ==
  LET key == PairKey(pair)
      value == PairValue(pair)
  IN  /\ key # ""
      /\ value # ""
      /\ Len(key) < KeyLenLimit
      /\ Len(value) < ValueLenLimit
      /\ ~(StartsWithAnyCI(key, KeyChrome) \/ IsDigit(CharAt(key, 1)))
      /\ ~StartsWithAnyCI(value, ValueChrome)

RECURSIVE ScanFrom(_, _, _)
\* both specPatterns, every match in document order
ScanFrom(pairs, i, m) ==
  IF i > Len(pairs) THEN m
  ELSE ScanFrom(pairs, i + 1,
                IF PairAccepted(pairs[i])
                THEN Put(m, PairKey(pairs[i]), PairValue(pairs[i]))
                ELSE m)

\* the capture of the targeted lookup for one vocabulary word:
\* the BOLD-span pattern || the "Word": "value" pattern
CommonCapture(doc, spec) ==
  IF doc.commonSpan[spec] # "" THEN doc.commonSpan[spec] ELSE doc.commonJson[spec]

RECURSIVE CommonFrom(_, _, _)
\* for (const spec of commonSpecs) if (!specifics[spec]) ...
CommonFrom(doc, i, m) ==
  IF i > Len(commonSpecs) THEN m
  ELSE LET spec == commonSpecs[i]
       IN  CommonFrom(doc, i + 1,
                      IF Get(m, spec) = "" /\ CommonCapture(doc, spec) # ""
                      THEN Put(m, spec, Trim(CommonCapture(doc, spec)))
                      ELSE m)

ExtractSpecifics(doc, brand) ==
  CommonFrom(doc, 1,
             ScanFrom(doc.pairs, 1,
                      IF brand # "" THEN <<(<<"Brand", brand>>)>> ELSE <<>>))

-----------------------------------------------------------------------------
(* Cleaning of markup.  A fragment is a sequence of tokens; a run of plain    *)
(* characters holds no whitespace and no markup.                              *)

IsWs(t) == t \in {" ", "\n", "\t"}

Prefix(t, n) == ToLower(SubSeq(t, 1, Min(n, Len(t))))

\* /<style[^>]*>[\s\S]*?<\/style>/gi and /<script[^>]*>[\s\S]*?<\/script>/gi
IsStyleOrScript(t) ==
  \/ Prefix(t, 6) = "<style" /\ EndsWith(t, "</style>")
  \/ Prefix(t, 7) = "<script" /\ EndsWith(t, "</script>")

\* /<[^>]+>/g
IsTag(t) == Len(t) >= 3 /\ CharAt(t, 1) = "<" /\ CharAt(t, Len(t)) = ">"

\* /<br\s*\/?>/gi, /<\/p>/gi, /<\/div>/gi
IsLineBreakTag(t) ==
  ToLower(Slice0(t, 6)) \in {"<br>", "<br/>", "<br />", "</p>", "</div>"}

\* the entity replacements, in the order the code applies them
DecodeEntity(t) ==
  CASE t = "&nbsp;" -> " "
    [] t = "&amp;"  -> "&"
    [] t = "&quot;" -> "\""
    [] t = "&#39;"  -> "'"
    [] t = "&lt;"   -> "<"
    [] t = "&gt;"   -> ">"
    [] OTHER        -> t

RECURSIVE DropBlocks(_)
DropBlocks(ts) ==
  IF ts = <<>> THEN <<>>
  ELSE IF IsStyleOrScript(Head(ts)) THEN DropBlocks(Tail(ts))
  ELSE <<Head(ts)>> \o DropBlocks(Tail(ts))

\* tags become `tag`, except line-break tags when `brk` is set, which become "\n"
MapMarkup(ts, tag, brk) ==
  [i \in 1..Len(ts) |->
     IF brk /\ IsLineBreakTag(ts[i]) THEN "\n"
     ELSE IF IsTag(ts[i]) THEN tag
     ELSE DecodeEntity(ts[i])]

RECURSIVE SkipWhile(_, _, _)
\* first index at or after i whose token is not in the class `ws`
SkipWhile(ts, i, ws) ==
  IF i <= Len(ts) /\ ts[i] \in ws THEN SkipWhile(ts, i + 1, ws) ELSE i

RECURSIVE CollapseRuns(_, _, _, _)
\* every maximal run of tokens of class `ws` becomes the single token `by`
CollapseRuns(ts, i, ws, by) ==
  IF i > Len(ts) THEN <<>>
  ELSE IF ts[i] \in ws
       THEN <<by>> \o CollapseRuns(ts, SkipWhile(ts, i, ws), ws, by)
  ELSE <<ts[i]>> \o CollapseRuns(ts, i + 1, ws, by)

RECURSIVE NewlineThenSpace(_, _)
\* /\n\s+/g -> "\n"
NewlineThenSpace(ts, i) ==
  IF i > Len(ts) THEN <<>>
  ELSE IF ts[i] = "\n" /\ i < Len(ts) /\ IsWs(ts[i + 1])
       THEN <<"\n">> \o NewlineThenSpace(ts, SkipWhile(ts, i + 1, {" ", "\n", "\t"}))
  ELSE <<ts[i]>> \o NewlineThenSpace(ts, i + 1)

RECURSIVE LastNewline(_, _, _)
\* the last "\n" of the whitespace run that starts at i (0 when it has none)
LastNewline(ts, i, found) ==
  IF i > Len(ts) \/ ~IsWs(ts[i]) THEN found
  ELSE LastNewline(ts, i + 1, IF ts[i] = "\n" THEN i ELSE found)

RECURSIVE BlankLines(_, _)
\* /\n\s*\n/g -> "\n"
BlankLines(ts, i) ==
  IF i > Len(ts) THEN <<>>
  ELSE IF ts[i] = "\n" /\ LastNewline(ts, i + 1, 0) > 0
       THEN <<"\n">> \o BlankLines(ts, LastNewline(ts, i + 1, 0) + 1)
  ELSE <<ts[i]>> \o BlankLines(ts, i + 1)

RECURSIVE ManyNewlines(_, _)
\* /\n{3,}/g -> "\n\n"
ManyNewlines(ts, i) ==
  IF i > Len(ts) THEN <<>>
  ELSE IF ts[i] = "\n" /\ SkipWhile(ts, i, {"\n"}) >= i + 3
       THEN <<"\n", "\n">> \o ManyNewlines(ts, SkipWhile(ts, i, {"\n"}))
  ELSE <<ts[i]>> \o ManyNewlines(ts, i + 1)

RECURSIVE TrimTokensStart(_)
TrimTokensStart(ts) ==
  IF ts # <<>> /\ IsWs(Head(ts)) THEN TrimTokensStart(Tail(ts)) ELSE ts

RECURSIVE TrimTokensEnd(_)
TrimTokensEnd(ts) ==
  IF ts # <<>> /\ IsWs(ts[Len(ts)])
  THEN TrimTokensEnd(SubSeq(ts, 1, Len(ts) - 1))
  ELSE ts

\* .trim() on the token sequence
TrimTokens(ts) == TrimTokensEnd(TrimTokensStart(ts))

RECURSIVE Concat(_)
\* the text the tokens spell
Concat(ts) == IF ts = <<>> THEN "" ELSE Head(ts) \o Concat(Tail(ts))

\* the replace chain of fetch.js's description loop
CleanInline(frag) ==
  Concat(TrimTokens(
    CollapseRuns(MapMarkup(DropBlocks(frag), " ", FALSE), 1,
                 {" ", "\n", "\t"}, " ")))

\* cleanHtml of the two-pass handler
cleanHtml(frag) ==
  Concat(TrimTokens(
    ManyNewlines(
      NewlineThenSpace(
        CollapseRuns(MapMarkup(DropBlocks(frag), " ", TRUE), 1, {" ", "\t"}, " "),
        1),
      1)))

RECURSIVE SplitLines(_, _, _)
\* text.split('\n'): the lines, each still a token sequence
SplitLines(ts, i, cur) ==
  IF i > Len(ts) THEN <<cur>>
  ELSE IF ts[i] = "\n" THEN <<cur>> \o SplitLines(ts, i + 1, <<>>)
  ELSE SplitLines(ts, i + 1, Append(cur, ts[i]))

RECURSIVE JoinLines(_)
\* .map(line => line.trim()).filter(line => line.length > 0).join('\n')
JoinLines(lines) ==
  IF lines = <<>> THEN ""
  ELSE LET line == Concat(TrimTokens(Head(lines)))
           rest == JoinLines(Tail(lines))
       IN  IF line = "" THEN rest
           ELSE IF rest = "" THEN line
           ELSE line \o "\n" \o rest

\* parseIframeDescription
parseIframeDescription(frag) ==
  JoinLines(
    SplitLines(
      TrimTokens(
        CollapseRuns(
          BlankLines(MapMarkup(DropBlocks(frag), "\n", FALSE), 1),
          1, {" ", "\t"}, " ")),
      1, <<>>))

-----------------------------------------------------------------------------
(* parseEbayListing: the inline description, the summary, the record *)

\* fetch.js: every pattern is tried; a longer cleaned text replaces the
\* description (there is no break in this loop)
RECURSIVE DescSingleFrom(_, _, _)
DescSingleFrom(doc, i, description) ==
  IF i > Len(doc.descCand) THEN description
  ELSE LET cleaned == CleanInline(doc.descCand[i])
       IN  DescSingleFrom(doc, i + 1,
             IF /\ doc.descCand[i] # <<>>
                /\ Len(cleaned) > InlineDescMinSingle
                /\ Len(cleaned) > Len(description)
             THEN cleaned ELSE description)

\* two-pass handler: the first pattern whose cleaned text is long enough wins
RECURSIVE DescTwoPassFrom(_, _, _)
DescTwoPassFrom(doc, i, description) ==
  IF i > Len(doc.descCand) THEN description
  ELSE LET cleaned == cleanHtml(doc.descCand[i])
       IN  IF /\ doc.descCand[i] # <<>>
              /\ Len(cleaned) > InlineDescMinTwoPass
              /\ Len(cleaned) > Len(description)
           THEN cleaned
           ELSE DescTwoPassFrom(doc, i + 1, description)

\* the description before it is truncated
ExtractDescription(im, doc, description) ==
  IF im = "single"
  THEN IF description = "" \/ Len(description) < InlineDescMinSingle
       THEN DescSingleFrom(doc, 1, description) ELSE description
  ELSE IF description = "" \/ Len(description) < InlineDescMinTwoPass
       THEN DescTwoPassFrom(doc, 1, description) ELSE description

RECURSIVE SpecLines(_)
\* for (const [key, value] of Object.entries(specifics)) summary += ...
SpecLines(m) ==
  IF m = <<>> THEN ""
  ELSE Head(m)[1] \o ": " \o Head(m)[2] \o "\n" \o SpecLines(Tail(m))

DescNote(im) ==
  IF im = "single"
  THEN "\n(Seller description not found - it may be in an iframe. You can paste it manually below.)"
  ELSE "\n(Seller description not found - it may be in an iframe. Please paste it manually below.)"

\* the lines the summary is made of, before the fallback test
SummaryLines(im, title, price, condition, specifics, description) ==
     (IF title # "" THEN "Title: " \o title \o "\n" ELSE "")
  \o (IF price # "" THEN "Price: $" \o price \o "\n" ELSE "")
  \o (IF condition # "" THEN "Condition: " \o condition \o "\n" ELSE "")
  \o (IF Len(specifics) > 0 THEN "\nItem Specifics:\n" \o SpecLines(specifics) ELSE "")
  \o (IF description # "" /\ Len(description) > SummaryDescMin
      THEN "\nSeller Description:\n" \o Slice0(description, MaxDescription)
           \o (IF Len(description) > MaxDescription THEN "..." ELSE "")
      ELSE DescNote(im))

\* faulty variant: the fallback replaces the summary as soon as either field is empty
UseFallbackEither(title, price) == title = "" \/ price = ""

\* if (!title && !price) summary = '...'
UseFallback(title, price) == title = "" /\ price = ""

\* fetch.js lines 208-230 (on the untruncated description) and buildSummary of
\* the two-pass handler (on the record's description)
buildSummary(im, title, price, condition, specifics, description) ==
  IF UseFallback(title, price) THEN FallbackSummary
  ELSE SummaryLines(im, title, price, condition, specifics, description)

\* description: (description || '').slice(0, 3000)
Truncate(description) == Slice0(description, MaxDescription)

parseEbayListing(im, doc) ==
  LET ld          == LdPass(doc.blocks)
      title       == ExtractTitle(doc, ld.title)
      price       == ExtractPrice(im, doc, ld.price)
      condition   == ExtractCondition(doc)
      specifics   == ExtractSpecifics(doc, ld.brand)
      description == ExtractDescription(im, doc, ld.description)
  IN  [title       |-> title,
       price       |-> price,
       condition   |-> condition,
       specifics   |-> specifics,
       description |-> Truncate(description),
       summary     |-> buildSummary(im, title, price, condition, specifics,
                                    IF im = "single" THEN description
                                    ELSE Truncate(description))]

-----------------------------------------------------------------------------
(* The second pass of the two-pass handler *)

RECURSIVE Unescape(_)
\* .replace(/\\u002F/g, '/').replace(/\\/g, '')
Unescape(s) ==
  IF s = "" THEN ""
  ELSE IF StartsWith(s, "\\u002F") THEN "/" \o Unescape(SubSeq(s, 7, Len(s)))
  ELSE IF CharAt(s, 1) = "\\" THEN Unescape(Tail(s))
  ELSE CharAt(s, 1) \o Unescape(Tail(s))

RECURSIVE IframeUrlFrom(_, _)
\* the first of the five patterns that matches
IframeUrlFrom(doc, i) ==
  IF i > Len(doc.iframeCand) THEN ""
  ELSE IF doc.iframeCand[i] # "" THEN Unescape(doc.iframeCand[i])
  ELSE IframeUrlFrom(doc, i + 1)

\* extractDescriptionIframeUrl; "" stands for null
extractDescriptionIframeUrl(doc) == IframeUrlFrom(doc, 1)

\* if (!listing.description || listing.description.length < 50)
WantsSecondPass(l) == l.description = "" \/ Len(l.description) < SecondPassBelow

\* faulty variant: any non-empty iframe text replaces the description
IframeReplacesAlways(l, iframeDescription) == iframeDescription # ""

\* if (iframeDescription && iframeDescription.length > (listing.description?.length || 0))
IframeReplaces(l, iframeDescription) ==
  iframeDescription # "" /\ Len(iframeDescription) > Len(l.description)

\* the listing after a successful iframe fetch returned `frag`
MergeIframe(l, frag) ==
  LET iframeDescription == parseIframeDescription(frag)
  IN  IF IframeReplaces(l, iframeDescription)
      THEN LET d == iframeDescription
           IN  [l EXCEPT !.description = d,
                         !.summary = buildSummary("twopass", l.title, l.price,
                                        l.condition, l.specifics, d)]
      ELSE l

-----------------------------------------------------------------------------
(* Inputs: requests, pages and iframe bodies *)

MaxBlocks == 2
MaxPairs == 2

Urls ==
  {"", "not a url", "ebay.com/itm/1",
   "https://www.ebay.com/itm/1", "https://notebay.com/itm/1",
   "https://example.com/itm/1"}

VocabSet == {commonSpecs[i] : i \in 1..Len(commonSpecs)}

NoCommon == [w \in VocabSet |-> ""]

EmptyDoc ==
  [blocks |-> <<>>, ogTitle |-> "", pageTitle |-> "",
   priceCand |-> <<"", "", "", "", "", "">>,
   condCand |-> <<"", "", "", "">>,
   pairs |-> <<>>, commonSpan |-> NoCommon, commonJson |-> NoCommon,
   descCand |-> <<(<<>>), (<<>>), (<<>>), (<<>>), (<<>>)>>,
   iframeCand |-> <<"", "", "", "", "">>]

\* sequences over S of length at most n
RECURSIVE SeqsUpTo(_, _)
SeqsUpTo(S, n) ==
  IF n = 0 THEN {<<>>}
  ELSE LET shorter == SeqsUpTo(S, n - 1)
       IN  shorter \cup {Append(q, x) : q \in shorter, x \in S}

Text60 == <<"Classic", " ", "501", " ", "jeans,", " ", "measured", " ", "flat:",
            " ", "waist", " ", "32,", " ", "inseam", " ", "30,", " ", "no",
            " ", "holes.">>

Blocks ==
  {Block(FALSE, "Product", "Broken block", "9.99", "Nike", "never read"),
   Block(TRUE, "Product", "Levi 501 Jeans", "45.00", "Levi's",
         "Classic straight leg jeans in good shape."),
   Block(TRUE, "Product", "Wrangler Jacket", "1,299.00", "Wrangler", ""),
   Block(TRUE, "BreadcrumbList", "", "12.00", "Gap", "not a product"),
   Block(TRUE, "WebPage", "Listing page", "", "", "Nice jeans"),
   Block(TRUE, "Product", "", "", "", Rep("x", MaxDescription + 1))}

\* a page on which every pattern-based extractor finds something
RichDoc ==
  [EmptyDoc EXCEPT
     !.ogTitle = "Vintage Levi's 501 | eBay",
     !.pageTitle = "Levi's 501 for sale | eBay",
     !.priceCand = <<"39.99", "", "", "1,250.00", "", "">>,
     !.condCand = <<"", " Pre-owned ", "", "">>,
     !.pairs = <<(<<"Brand:", "Unbranded">>), (<<"Size", " XL ">>)>>,
     !.commonJson = [NoCommon EXCEPT !["Color"] = "Blue"],
     !.descCand = <<(<<>>), Text60, (<<>>), (<<>>), (<<>>)>>,
     !.iframeCand = <<"https://vi.vipr.ebaydesc.com/ws/eBayISAPI.dll?item=1",
                      "", "", "", "">>]

LdDocs ==
  {[base EXCEPT !.blocks = bs] :
     base \in {EmptyDoc, RichDoc}, bs \in SeqsUpTo(Blocks, MaxBlocks)}

TitleDocs ==
  {[EmptyDoc EXCEPT !.ogTitle = og, !.pageTitle = pt, !.condCand = cc] :
     og \in {"", "Vintage Levi's 501 | eBay", "  "},
     pt \in {"", " Levi's 501 for sale | eBay"},
     cc \in {<<"", "", "", "">>, <<"  ", "Pre-owned ", "", "New">>,
             <<"", "", " ", "Used">>}}

PriceDocs ==
  {[EmptyDoc EXCEPT !.priceCand = <<p1, p2, p3, p4, p5, p6>>] :
     p1 \in {"", "45.00", "0.00", "60000"},
     p2 \in {"", "1.2.3", "50000"},
     p3 \in {"", "49999.99"},
     p4 \in {"", "1,299.00", "3,400,221"},
     p5 \in {"", "3,400,221.00"},
     p6 \in {"", "12.50"}}

Pairs ==
  {<<"Size:", " XL ">>,
   <<"Brand", "Unbranded">>,
   <<"See More", "Details">>,
   <<"Color", "View all">>,
   <<"5 stars", "good">>,
   <<"Fit", " ">>,
   <<Rep("k", KeyLenLimit - 1), Rep("v", ValueLenLimit - 1)>>,
   <<Rep("k", KeyLenLimit), "ok">>,
   <<"Material", Rep("v", ValueLenLimit)>>,
   <<"Style", Rep("v", ValueLenLimit + 1)>>}

PairDocs ==
  {[EmptyDoc EXCEPT !.blocks = bs, !.pairs = ps] :
     bs \in {<<>>, <<Block(TRUE, "Product", "", "", "Levi's", "")>>},
     ps \in SeqsUpTo(Pairs, MaxPairs)}

CommonDocs ==
  {[EmptyDoc EXCEPT
      !.pairs = ps,
      !.commonSpan = [NoCommon EXCEPT !["Brand"] = sp],
      !.commonJson = [NoCommon EXCEPT !["Size"] = js, !["Brand"] = jb] ] :
     ps \in {<<>>, <<(<<"Size", "M">>)>>},
     sp \in {"", " Levi's "},
     js \in {"", "XL", " ", Rep("v", ValueLenLimit + 1)},
     jb \in {"", "Lee"}}

Text10 == <<"Nice", " ", "jeans">>
Text30 == <<"<p>", "Great", "&nbsp;", "jeans", "</p>", "\n", " ", "<b>", "barely",
            "</b>", " ", "worn", "&amp;", "clean">>
Text70 == <<"<style>p{color:red}</style>", "Measurements:", "<br>", "waist", " ",
            "32", "<br/>", "\n", "inseam", " ", "30", "</div>", "\t", "rise",
            " ", "11", "&quot;", " ", "leg", " ", "opening", " ", "8", " ",
            "thigh", " ", "12", " ", "hem", " ", "original">>
TextHuge == <<"<div>", Rep("x", MaxDescription + 1), "</div>">>

DescDocs ==
  {[EmptyDoc EXCEPT
      !.ogTitle = "Vintage Levi's 501 | eBay",
      !.blocks = bs,
      !.descCand = <<d1, d2, d3, (<<>>), d5>>,
      !.iframeCand = fc] :
     bs \in {<<>>,
             <<Block(TRUE, "Product", "", "", "", "Nice jeans")>>,
             <<Block(TRUE, "Product", "", "", "",
                     "Classic straight leg jeans in good shape.")>>},
     d1 \in {<<>>, Text30},
     d2 \in {<<>>, Text60},
     d3 \in {<<>>, Text10},
     d5 \in {<<>>, Text70},
     fc \in {<<"https://vi.vipr.ebaydesc.com/ws/eBayISAPI.dll?item=1", "", "",
               "", "">>,
             <<"", "", "https:\\u002F\\u002Fvi.vipr.ebaydesc.com\\u002Fitem\\u002F1",
               "", "">>,
             <<"", "", "", "", "">>}}

\* a page without title and price on which the second pass runs
BareDocs ==
  {[EmptyDoc EXCEPT !.pairs = ps, !.condCand = <<"Used", "", "", "">>,
                    !.iframeCand = <<"", "https://desc.ebaydesc.com/1", "", "", "">>] :
     ps \in {<<>>, <<(<<"Size", "M">>)>>}}

\* pages whose inline description is longer than the record may hold
HugeDocs ==
  {[EmptyDoc EXCEPT !.pageTitle = "Levi's 501 for sale | eBay",
                    !.descCand = <<(<<>>), d2, (<<>>), TextHuge, (<<>>)>>,
                    !.iframeCand = fc] :
     d2 \in {<<>>, Text60},
     fc \in {<<"", "", "", "", "">>,
             <<"", "https://desc.ebaydesc.com/1", "", "", "">>}}

Docs == LdDocs \cup TitleDocs \cup PriceDocs \cup PairDocs \cup CommonDocs
        \cup DescDocs \cup HugeDocs \cup BareDocs

IframeBodies ==
  {<<>>,
   <<"<html>", "\n", " ", "<body>", "\n", "</body>", "</html>">>,
   Text10,
   Text70,
   <<"<div>", Rep("y", 500), "</div>">>,
   TextHuge}

ErrorMessages == {"fetch failed"}

UpstreamStatuses == {403, 500}

UpstreamBodies == {"Forbidden", "upstream said no"}

-----------------------------------------------------------------------------
(* The handler *)

NoListing ==
  [title |-> "", price |-> "", condition |-> "", specifics |-> <<>>,
   description |-> "", summary |-> ""]

NoResponse == [status |-> 0, kind |-> "none", error |-> ""]

\* the primary fetch has not ended
NoOutcome == [outcome |-> "none", status |-> 0, text |-> ""]

Init ==
  /\ impl \in {"single", "twopass"}
  /\ pc = "start"
  /\ req \in [method : {"GET", "OPTIONS"}, url : Urls]
  /\ apiKey \in {"", "sb-key"}
  /\ fetches = <<>>
  /\ res = NoResponse
  /\ html = EmptyDoc
  /\ listing = NoListing
  /\ first = NoListing
  /\ sub = "none"
  /\ prim = NoOutcome
  /\ subHtml = <<>>

\* res.status(code).json({ error }) and return
RespondError(code, message) ==
  /\ res' = [status |-> code, kind |-> "error", error |-> message]
  /\ pc' = "done"

\* res.status(200).json(listing) and return
RespondListing ==
  /\ res' = [status |-> 200, kind |-> "listing", error |-> ""]
  /\ pc' = "done"

\* if (req.method === 'OPTIONS') return res.status(200).end()
Preflight ==
  /\ pc = "start"
  /\ req.method = "OPTIONS"
  /\ res' = [status |-> 200, kind |-> "end", error |-> ""]
  /\ pc' = "done"
  /\ UNCHANGED <<impl, req, apiKey, fetches, html, listing, first, sub, prim, subHtml>>

\* faulty variant: the missing-url test does not return
MissingUrlFallsThrough ==
  /\ pc = "start"
  /\ req.method # "OPTIONS"
  /\ req.url = ""
  /\ fetches' = Append(fetches, [kind |-> "primary", target |-> req.url])
  /\ pc' = "primary"
  /\ UNCHANGED <<impl, req, apiKey, res, html, listing, first, sub, prim, subHtml>>

\* if (!url)
MissingUrl ==
  /\ pc = "start"
  /\ req.method # "OPTIONS"
  /\ req.url = ""
  /\ RespondError(400, "URL parameter required")
  /\ UNCHANGED <<impl, req, apiKey, fetches, html, listing, first, sub, prim, subHtml>>

\* new URL(url) throws
InvalidUrl ==
  /\ pc = "start"
  /\ req.method # "OPTIONS"
  /\ req.url # ""
  /\ ~UrlParses(req.url)
  /\ RespondError(400, "Invalid URL")
  /\ UNCHANGED <<impl, req, apiKey, fetches, html, listing, first, sub, prim, subHtml>>

\* the host passes no allowedDomains test
UnsupportedHost ==
  /\ pc = "start"
  /\ req.method # "OPTIONS"
  /\ req.url # ""
  /\ UrlParses(req.url)
  /\ ~HostAllowed(Hostname(req.url))
  /\ RespondError(400, "Only eBay URLs are supported")
  /\ UNCHANGED <<impl, req, apiKey, fetches, html, listing, first, sub, prim, subHtml>>

\* the request passed validation
Validated ==
  /\ pc = "start"
  /\ req.method # "OPTIONS"
  /\ req.url # ""
  /\ UrlParses(req.url)
  /\ HostAllowed(Hostname(req.url))

\* faulty variant: the key test does not return, the fetch goes out without a key
KeyMissingIgnored ==
  /\ Validated
  /\ apiKey = ""
  /\ fetches' = Append(fetches, [kind |-> "primary", target |-> req.url])
  /\ pc' = "primary"
  /\ UNCHANGED <<impl, req, apiKey, res, html, listing, first, sub, prim, subHtml>>

\* if (!apiKey)
KeyMissing ==
  /\ Validated
  /\ apiKey = ""
  /\ RespondError(500, "ScrapingBee API key not configured")
  /\ UNCHANGED <<impl, req, apiKey, fetches, html, listing, first, sub, prim, subHtml>>

\* await fetch(scrapingBeeUrl)
FetchPrimary ==
  /\ Validated
  /\ apiKey # ""
  /\ fetches' = Append(fetches, [kind |-> "primary", target |-> req.url])
  /\ pc' = "primary"
  /\ UNCHANGED <<impl, req, apiKey, res, html, listing, first, sub, prim, subHtml>>

\* faulty variant: a rejected primary fetch is tried once more
PrimaryThrowsRetry ==
  /\ pc = "primary"
  /\ Len(fetches) < 2
  /\ fetches' = Append(fetches, [kind |-> "primary", target |-> req.url])
  /\ UNCHANGED <<impl, pc, req, apiKey, res, html, listing, first, sub, prim, subHtml>>

\* the primary fetch rejects, or reading its body throws: the outer catch
PrimaryThrows ==
  /\ pc = "primary"
  /\ \E m \in ErrorMessages :
       /\ prim' = [outcome |-> "threw", status |-> 0, text |-> m]
       /\ RespondError(500, m)
  /\ UNCHANGED <<impl, req, apiKey, fetches, html, listing, first, sub, subHtml>>

\* faulty variant: every upstream failure is answered 500
PrimaryNotOkAs500 ==
  /\ pc = "primary"
  /\ \E code \in UpstreamStatuses, errorText \in UpstreamBodies :
       /\ prim' = [outcome |-> "notok", status |-> code, text |-> errorText]
       /\ RespondError(500, "ScrapingBee error: " \o errorText)
  /\ UNCHANGED <<impl, req, apiKey, fetches, html, listing, first, sub, subHtml>>

\* if (!response.ok)
PrimaryNotOk ==
  /\ pc = "primary"
  /\ \E code \in UpstreamStatuses, errorText \in UpstreamBodies :
       /\ prim' = [outcome |-> "notok", status |-> code, text |-> errorText]
       /\ RespondError(code, "ScrapingBee error: " \o errorText)
  /\ UNCHANGED <<impl, req, apiKey, fetches, html, listing, first, sub, subHtml>>

\* the primary document arrives: parse it, then answer or start the second pass
PrimaryOk ==
  /\ pc = "primary"
  /\ \E doc \in Docs :
       LET l == parseEbayListing(impl, doc)
           iframeUrl == extractDescriptionIframeUrl(doc)
       IN  /\ prim' = [outcome |-> "ok", status |-> 200, text |-> ""]
           /\ html' = doc
           /\ listing' = l
           /\ first' = l
           /\ IF impl = "twopass" /\ WantsSecondPass(l) /\ iframeUrl # ""
              THEN /\ fetches' = Append(fetches,
                                   [kind |-> "secondary", target |-> iframeUrl])
                   /\ pc' = "secondary"
                   /\ UNCHANGED res
              ELSE /\ RespondListing
                   /\ UNCHANGED fetches
  /\ UNCHANGED <<impl, req, apiKey, sub, subHtml>>

\* faulty variant: no inner try/catch, the rejection reaches the outer catch
SecondaryThrowsFatal ==
  /\ pc = "secondary"
  /\ sub' = "threw"
  /\ \E m \in ErrorMessages : RespondError(500, m)
  /\ UNCHANGED <<impl, req, apiKey, fetches, html, listing, first, prim, subHtml>>

\* the iframe fetch rejects or reading its body throws: the inner catch
SecondaryThrows ==
  /\ pc = "secondary"
  /\ sub' = "threw"
  /\ RespondListing
  /\ UNCHANGED <<impl, req, apiKey, fetches, html, listing, first, prim, subHtml>>

\* if (iframeResponse.ok) is false
SecondaryNotOk ==
  /\ pc = "secondary"
  /\ sub' = "notok"
  /\ RespondListing
  /\ UNCHANGED <<impl, req, apiKey, fetches, html, listing, first, prim, subHtml>>

\* the iframe document arrives
SecondaryOk ==
  /\ pc = "secondary"
  /\ \E frag \in IframeBodies :
       /\ subHtml' = frag
       /\ listing' = MergeIframe(listing, frag)
  /\ sub' = "ok"
  /\ RespondListing
  /\ UNCHANGED <<impl, req, apiKey, fetches, html, first, prim>>

Next ==
  \/ Preflight
  \/ MissingUrl
  \/ InvalidUrl
  \/ UnsupportedHost
  \/ KeyMissing
  \/ FetchPrimary
  \/ PrimaryThrows
  \/ PrimaryNotOk
  \/ PrimaryOk
  \/ SecondaryThrows
  \/ SecondaryNotOk
  \/ SecondaryOk

Spec == Init /\ [][Next]_vars

-----------------------------------------------------------------------------
(* Properties *)

\* the handler answered with a listing record
Returned == res.kind = "listing"

\* the host is an allow-listed domain or a subdomain of one
OnAllowList(host) ==
  \E i \in 1..Len(allowedDomains) :
    host = allowedDomains[i] \/ EndsWith(host, "." \o allowedDomains[i])

\* C1: a request whose URL parses but whose host is neither an allow-listed
\* domain nor a subdomain of one never has a fetch issued for it, and is
\* answered with the 400 "Only eBay URLs are supported" error.
C1_OffListHostRejected ==
  (/\ req.method # "OPTIONS"
   /\ req.url # ""
   /\ UrlParses(req.url)
   /\ ~OnAllowList(Hostname(req.url)))
  => /\ fetches = <<>>
     /\ pc = "done" =>
          res = [status |-> 400, kind |-> "error",
                 error |-> "Only eBay URLs are supported"]

\* C2: the description of every returned record has at most 3000 characters,
\* also when the iframe text replaced it.
C2_DescriptionBounded ==
  Returned => Len(listing.description) <= 3000

\* C3: every field the JSON-LD pass populated (title, price, the Brand
\* specific, description) has that same value in the returned record.
C3_StructuredDataKept ==
  Returned =>
    LET ld == LdPass(html.blocks)
    IN  /\ ld.title # "" => listing.title = ld.title
        /\ ld.price # "" => listing.price = ld.price
        /\ ld.brand # "" => Get(listing.specifics, "Brand") = ld.brand
        /\ ld.description # "" => listing.description = ld.description

\* C4: a returned record with empty title and empty price has exactly the
\* fallback sentence as its summary, whatever else was recovered and also after
\* the summary was rebuilt in the second pass; a record with a title or a price
\* never has the fallback sentence as its summary.
C4_FallbackSummary ==
  Returned =>
    ((listing.title = "" /\ listing.price = "")
       <=> listing.summary = FallbackSummary)

\* a titleless, priceless record with condition and specifics whose description
\* was replaced by the iframe text (so the summary was rebuilt)
C4_Witness ==
  /\ Returned
  /\ listing.title = ""
  /\ listing.price = ""
  /\ listing.condition # ""
  /\ listing.specifics # <<>>
  /\ sub = "ok"
  /\ listing.description # first.description
  /\ listing.summary = FallbackSummary

\* C5: when the iframe fetch fails (it throws, its body cannot be read, or it
\* answers non-2xx) the request still ends with a 200 response that carries
\* exactly the record parseEbayListing built from the primary document.
C5_SecondaryFailureSwallowed ==
  sub \in {"threw", "notok"} =>
    /\ pc = "done"
    /\ res = [status |-> 200, kind |-> "listing", error |-> ""]
    /\ listing = first
    /\ listing = parseEbayListing("twopass", html)

\* the iframe fetch threw after a primary document with a short description
C5_Witness ==
  /\ sub = "threw"
  /\ Returned
  /\ Len(fetches) = 2
  /\ first.description # ""

\* the indices of the qualifying blocks that carry the field F reads
Carriers(blocks, F(_)) ==
  {i \in 1..Len(blocks) : Qualifies(blocks[i]) /\ F(blocks[i]) # ""}

FirstWith(blocks, F(_)) ==
  LET I == Carriers(blocks, F)
  IN  IF I = {} THEN "" ELSE F(blocks[CHOOSE i \in I : \A j \in I : i <= j])

LastWith(blocks, F(_)) ==
  LET I == Carriers(blocks, F)
  IN  IF I = {} THEN "" ELSE F(blocks[CHOOSE i \in I : \A j \in I : i >= j])

NameOf(b) == b.name
OfferPriceOf(b) == b.offerPrice
BrandNameOf(b) == b.brandName
DescriptionOf(b) == b.description

\* C6 as claimed: with several JSON-LD blocks, each field comes from the first
\* qualifying block that carries it, independently per field.
C6_FirstBlockWins ==
  Returned =>
    LET ld == LdPass(html.blocks)
    IN  /\ ld.title = FirstWith(html.blocks, NameOf)
        /\ ld.price = FirstWith(html.blocks, OfferPriceOf)
        /\ ld.brand = FirstWith(html.blocks, BrandNameOf)
        /\ ld.description = FirstWith(html.blocks, DescriptionOf)
        /\ ld.title # "" => listing.title = FirstWith(html.blocks, NameOf)
        /\ ld.price # "" => listing.price = FirstWith(html.blocks, OfferPriceOf)

\* C6 as amended: with several JSON-LD blocks, each field comes from the LAST
\* qualifying block that carries it, independently per field; a block that
\* does not carry the field leaves the value of an earlier block in place.
C6_LastBlockWins ==
  Returned =>
    LET ld == LdPass(html.blocks)
    IN  /\ ld.title = LastWith(html.blocks, NameOf)
        /\ ld.price = LastWith(html.blocks, OfferPriceOf)
        /\ ld.brand = LastWith(html.blocks, BrandNameOf)
        /\ ld.description = LastWith(html.blocks, DescriptionOf)
        /\ ld.title # "" => listing.title = LastWith(html.blocks, NameOf)
        /\ ld.price # "" => listing.price = LastWith(html.blocks, OfferPriceOf)

\* two qualifying blocks with different names and prices; the record carries
\* those of the second
C6_Witness ==
  /\ Returned
  /\ Len(html.blocks) >= 2
  /\ Carriers(html.blocks, NameOf) = {1, 2}
  /\ Carriers(html.blocks, OfferPriceOf) = {1, 2}
  /\ html.blocks[1].name # html.blocks[2].name
  /\ html.blocks[1].offerPrice # html.blocks[2].offerPrice
  /\ listing.title = html.blocks[2].name
  /\ listing.price = html.blocks[2].offerPrice

\* the candidate, separators stripped, parses to a value v with 0 < v < 50000
CandidateInRange(c) ==
  LET v == ParseFloat(StripCommas(c))
  IN  ~v.nan /\ (v.int > 0 \/ v.frac) /\ v.int < 50000

\* the price strategies that match with an in-range candidate
InRangeStrategies ==
  {i \in 1..PricePatternCount(impl) :
     html.priceCand[i] # "" /\ CandidateInRange(html.priceCand[i])}

IsDecimalAmount(s) ==
  LET v == ParseFloat(s) IN ~v.nan /\ v.used = Len(s)

\* C8: the price of every returned record is empty or one decimal amount
\* without currency symbol and without thousands separators, whichever source
\* set it.
C8_PriceNormalized ==
  Returned => (listing.price = "" \/ IsDecimalAmount(listing.price))

\* C9: no entry of the returned specifics has an empty key or an empty value.
C9_NoEmptySpecifics ==
  Returned =>
    \A i \in 1..Len(listing.specifics) :
      listing.specifics[i][1] # "" /\ listing.specifics[i][2] # ""

\* a label that looks like navigational chrome
ChromeLabel(key) ==
  StartsWithAnyCI(key, KeyChrome) \/ (key # "" /\ IsDigit(CharAt(key, 1)))

\* the entries specifics extraction stored (all but an untouched JSON-LD brand)
StoredByExtraction(i) ==
  listing.specifics[i] # <<"Brand", LdPass(html.blocks).brand>>

\* C10: no entry stored by specifics extraction (generic scan or targeted
\* lookup) has a value longer than 100 characters or a label starting with a
\* navigational keyword or a digit; and every generic-scan pair with a
\* non-empty label of at most 25 characters and a non-empty value of at most
\* 100 characters that is not navigational chrome is accepted.
C10_SpecificsFiltered ==
  Returned =>
    /\ \A i \in 1..Len(listing.specifics) :
         StoredByExtraction(i) =>
           /\ Len(listing.specifics[i][2]) <= 100
           /\ ~ChromeLabel(listing.specifics[i][1])
    /\ \A i \in 1..Len(html.pairs) :
         LET key == PairKey(html.pairs[i])
             value == PairValue(html.pairs[i])
         IN  (/\ key # "" /\ Len(key) <= 25
              /\ value # "" /\ Len(value) <= 100
              /\ ~ChromeLabel(key)
              /\ ~StartsWithAnyCI(value, ValueChrome))
             => /\ PairAccepted(html.pairs[i])
                /\ HasKey(listing.specifics, key)

\* C11: after a successful iframe fetch the returned description is the
\* longer of the two candidates: the iframe text when it is strictly longer than
\* the first-pass description, the first-pass description unchanged otherwise.
C11_LongerDescriptionKept ==
  sub = "ok" =>
    LET subText == parseIframeDescription(subHtml)
    IN  /\ Returned
        /\ listing.description =
             IF Len(subText) > Len(first.description) THEN subText
             ELSE first.description
        /\ Len(listing.description) >= Len(subText)
        /\ Len(listing.description) >= Len(first.description)

\* a 10-character first-pass description and a 500-character iframe text
C11_Witness ==
  /\ sub = "ok"
  /\ Len(first.description) = 10
  /\ Len(parseIframeDescription(subHtml)) = 500
  /\ listing.description = parseIframeDescription(subHtml)

\* the url parameter is missing or is no URL
BadUrl == req.url = "" \/ ~UrlParses(req.url)

\* C12: a request without url parameter, or whose url is no URL, never has a
\* fetch issued for it, and (the OPTIONS pre-flight aside) is answered 400.
C12_BadUrlRejected ==
  BadUrl =>
    /\ fetches = <<>>
    /\ pc \in {"start", "done"}
    /\ (pc = "done" /\ req.method # "OPTIONS") =>
         /\ res.status = 400
         /\ res.kind = "error"
         /\ res.error =
              IF req.url = "" THEN "URL parameter required" ELSE "Invalid URL"

\* a text without scheme was answered 400
C12_Witness ==
  /\ req.url = "ebay.com/itm/1"
  /\ req.method = "GET"
  /\ pc = "done"
  /\ res.status = 400

\* one step of the handler as far as the fetches go
FetchDiscipline ==
  /\ res.kind # "none" => fetches' = fetches
  /\ fetches' # fetches =>
       \/ /\ fetches = <<>>
          /\ pc = "start"
          /\ fetches' = <<[kind |-> "primary", target |-> req.url]>>
       \/ /\ Len(fetches) = 1
          /\ pc = "primary"
          /\ prim'.outcome = "ok"
          /\ Len(fetches') = 2
          /\ fetches'[1] = fetches[1]
          /\ fetches'[2].kind = "secondary"

\* C13: a request issues at most two fetches, in sequence: the primary one,
\* then the secondary one in the step in which the primary document arrived;
\* no fetch is repeated after a failure and none follows the response.
C13_TwoSequentialFetches ==
  /\ [](Len(fetches) <= 2)
  /\ [](prim.outcome \in {"threw", "notok"} => Len(fetches) = 1)
  /\ [][FetchDiscipline]_vars

\* both fetches were issued and the response was sent
C13_Witness ==
  /\ pc = "done"
  /\ Len(fetches) = 2
  /\ fetches[1].kind = "primary"
  /\ fetches[2].kind = "secondary"

\* C14: a failed primary fetch ends the request: a non-2xx answer is passed on
\* with the upstream status and an error message, a transport error with the
\* exception's message; no record is built or returned and no second fetch is
\* issued.
C14_PrimaryFailureFatal ==
  prim.outcome \in {"threw", "notok"} =>
    /\ pc = "done"
    /\ res.kind = "error"
    /\ prim.outcome = "notok" =>
         /\ res.status = prim.status
         /\ res.error = "ScrapingBee error: " \o prim.text
    /\ prim.outcome = "threw" =>
         /\ res.status = 500
         /\ res.error = prim.text
    /\ listing = NoListing
    /\ first = NoListing
    /\ fetches = <<[kind |-> "primary", target |-> req.url]>>

\* the proxy answered 403 and the handler passed it on
C14_Witness ==
  /\ prim.outcome = "notok"
  /\ prim.status = 403
  /\ res.status = 403
  /\ res.kind = "error"

\* C15: with the API key absent, a request with an allow-listed URL never has
\* a fetch issued for it and is answered with the "key not configured" error.
C15_KeyMissingRejected ==
  (/\ req.method # "OPTIONS"
   /\ req.url # ""
   /\ UrlParses(req.url)
   /\ OnAllowList(Hostname(req.url))
   /\ apiKey = "")
  => /\ fetches = <<>>
     /\ pc \in {"start", "done"}
     /\ pc = "done" =>
          res = [status |-> 500, kind |-> "error",
                 error |-> "ScrapingBee API key not configured"]

\* an allow-listed request answered with the configuration error
C15_Witness ==
  /\ OnAllowList(Hostname(req.url))
  /\ apiKey = ""
  /\ pc = "done"
  /\ res.error = "ScrapingBee API key not configured"

\* the first-pass description is empty or shorter than 50 characters
FirstPassShort == first.description = "" \/ Len(first.description) < 50

\* one of the iframe-url patterns matched the primary document
SubUrlFound == \E i \in 1..Len(html.iframeCand) : html.iframeCand[i] # ""

\* without second fetch the record of the primary document is returned
PrimaryRecordReturned ==
  (prim.outcome = "ok" /\ Len(fetches) = 1) =>
    /\ pc = "done"
    /\ res = [status |-> 200, kind |-> "listing", error |-> ""]
    /\ listing = first

\* C16: a secondary fetch is issued exactly when the primary fetch succeeded,
\* the first-pass description is empty or shorter than 50 characters, and an
\* iframe URL was found in the primary document; otherwise the record of the
\* primary document is returned with no further fetch.
C16_SecondFetchIff ==
  /\ Len(fetches) = 2 <=>
       (prim.outcome = "ok" /\ FirstPassShort /\ SubUrlFound)
  /\ PrimaryRecordReturned

====
